---- MODULE Spec2Model ----
(***************************************************************************)
(* Nebula-KTV: the song processing lifecycle (worker/tasks/process_song),  *)
(* the media asset registry (worker/services and app/services              *)
(* media_asset_service) and the songs / media_assets tables they share.    *)
(***************************************************************************)
EXTENDS Integers, Sequences, FiniteSets, TLC

VARIABLES
    songs,          \* table songs: song id -> row [status, meta_json]
    media_assets,   \* table media_assets: rows in query order
    next_id,        \* next fresh primary key of media_assets (uuid4)
    tasks,          \* per delivered job: the state of process_song_task
    reply,          \* the answer of the last registry query
    streams         \* per request: the state of its response body generator

vars == <<songs, media_assets, next_id, tasks, reply, streams>>

-----------------------------------------------------------------------------
(* Enumerations                                                            *)

PENDING == "PENDING"
PROCESSING == "PROCESSING"
READY == "READY"
PARTIAL == "PARTIAL"
FAILED == "FAILED"

SongStatus == {PENDING, PROCESSING, READY, PARTIAL, FAILED}

VIDEO_MASTER == "video_master"
AUDIO_ORIGINAL == "audio_original"
AUDIO_INST == "audio_inst"
AUDIO_VOCAL == "audio_vocal"
LYRICS_VTT == "lyrics_vtt"
LYRICS_WORD_LEVEL == "lyrics_word_level"
WAVEFORM_JSON == "waveform_json"

AssetType ==
    {VIDEO_MASTER, AUDIO_ORIGINAL, AUDIO_INST, AUDIO_VOCAL, LYRICS_VTT,
     LYRICS_WORD_LEVEL, WAVEFORM_JSON}

\* @shared_task(max_retries=3)
max_retries == 3

-----------------------------------------------------------------------------
(* Inputs                                                                  *)

\* Song ids used by jobs and queries; only ExistingSongs have a row in songs.
SongIds == {"s1", "s2"}
ExistingSongs == {"s1"}

\* Deliveries of the job message {song_id, file_path} (at-least-once queue).
Jobs == {"j1", "j2"}

\* A source file path as <<directory, base name, extension>>.
FilePaths == {<<"/media/songs", "song", ".mp4">>}

\* str(e) of an exception raised by a step; str(Exception()) is "".
ExcMessages == {"", "connection lost"}

TIMEOUT_MESSAGE == "Processing timeout"

\* meta_json: None, or a dict over these keys (Absent marks a missing key).
MetaKeys == {"bpm", "error"}
Absent == "<absent>"
EmptyDict == [k \in MetaKeys |-> Absent]
NoneMeta == [none |-> TRUE, items |-> EmptyDict]
Dict(d) == [none |-> FALSE, items |-> d]
InitialMeta == {NoneMeta, Dict(EmptyDict), Dict([EmptyDict EXCEPT !["bpm"] = "120"])}

NoReply == [op |-> "none"]

\* The registry calls: at most MaxAssets records are ever created, of these
\* kinds (the three mandatory ones and an optional one), with this path for
\* a record created on its own.
MaxAssets == 4
RegistryTypes == {VIDEO_MASTER, AUDIO_ORIGINAL, AUDIO_INST, AUDIO_VOCAL}
SinglePath == <<"/media/songs", "extra", ".bin">>
Services == {"worker", "api"}

\* The requests whose bodies are streamed at the same time
Requests == {"r1", "r2"}

\* No request has arrived: no generator, no file handle
IdleStream ==
    [pc |-> "idle", status |-> 0, file |-> <<>>, start |-> 0, end |-> 0,
     chunk_size |-> 0, position |-> 0, remaining |-> 0, handle |-> "none",
     chunks |-> <<>>]

NoStreams == [r \in Requests |-> IdleStream]

-----------------------------------------------------------------------------
(* The ORM session (worker/db.get_db_session, models/song.Song)            *)

\* db.query(Song).filter(Song.id == UUID(song_id)).first()
SongExists(song_id) == song_id \in DOMAIN songs

\* session.commit(): the unit of work writes the attributes that received a
\* set-event.  Song.meta_json is Column(JSONB, default=dict), a plain JSONB
\* column without mutation tracking, so an item assignment into the loaded
\* dict is not a set-event and is not written.
Flush(row, obj, dirty) ==
    [f \in DOMAIN row |-> IF f \in dirty THEN obj[f] ELSE row[f]]

\* A step 1 whose status assignment is lost.
WriteNothing(row) == row

\* song.status = SongStatus.PROCESSING.value; db.commit()
WriteProcessing(row) ==
    Flush(row, [row EXCEPT !.status = PROCESSING], {"status"})

\* A READY write that stores the status of step 1 instead.
WriteReadyAsProcessing(row) ==
    Flush(row, [row EXCEPT !.status = PROCESSING], {"status"})

\* song.status = SongStatus.READY.value; db.commit()
WriteReady(row) ==
    Flush(row, [row EXCEPT !.status = READY], {"status"})

\* _mark_song_failed, the body of `if song:` up to db.commit()
MarkFailedObject(row, error_message) ==
    LET o1 == [row EXCEPT !.status = FAILED]
        o2 == IF o1.meta_json.none
              THEN [o1 EXCEPT !.meta_json = Dict(EmptyDict)]
              ELSE o1
    IN  [o2 EXCEPT !.meta_json.items["error"] = error_message]

MarkFailedDirty(row) ==
    {"status"} \cup (IF row.meta_json.none THEN {"meta_json"} ELSE {})

WriteFailed(row, error_message) ==
    Flush(row, MarkFailedObject(row, error_message), MarkFailedDirty(row))

-----------------------------------------------------------------------------
(* The asset registry                                                      *)

\* _generate_output_paths(song_id, file_path)
GenerateOutputPaths(song_id, file_path) ==
    LET base_dir == file_path[1]
        base_name == file_path[2]
        output_dir == <<base_dir, "processed", song_id>>
    IN  [video_master   |-> file_path,
         audio_original |-> <<output_dir, base_name, "_original.mp3">>,
         audio_inst     |-> <<output_dir, base_name, "_inst.mp3">>,
         audio_vocal    |-> <<output_dir, base_name, "_vocal.mp3">>,
         lyrics_vtt     |-> <<output_dir, base_name, ".vtt">>]

\* An insert that overwrites the stored record of the same song and kind.
CreateAssetUpsert(table, id, song_id, asset_type, path) ==
    IF \E i \in DOMAIN table :
           table[i].song_id = song_id /\ table[i].type = asset_type
    THEN [i \in DOMAIN table |->
             IF table[i].song_id = song_id /\ table[i].type = asset_type
             THEN [table[i] EXCEPT !.path = path]
             ELSE table[i]]
    ELSE Append(table, [id |-> id, song_id |-> song_id, type |-> asset_type,
                        path |-> path])

\* SyncMediaAssetService.create_asset: one INSERT, nothing else touched
CreateAsset(table, id, song_id, asset_type, path) ==
    Append(table, [id |-> id, song_id |-> song_id, type |-> asset_type,
                   path |-> path])

\* The two audio paths handed to the wrong kinds.
CreateMediaAssetsSwapped(table, id, song_id, video_path, audio_original_path, audio_inst_path) ==
    CreateAsset(
        CreateAsset(
            CreateAsset(table, id, song_id, VIDEO_MASTER, video_path),
            id + 1, song_id, AUDIO_ORIGINAL, audio_inst_path),
        id + 2, song_id, AUDIO_INST, audio_original_path)

\* SyncMediaAssetService.create_media_assets_for_song
CreateMediaAssetsForSong(table, id, song_id, video_path, audio_original_path, audio_inst_path) ==
    LET t1 == CreateAsset(table, id, song_id, VIDEO_MASTER, video_path)
        t2 == CreateAsset(t1, id + 1, song_id, AUDIO_ORIGINAL,
                          audio_original_path)
    IN  CreateAsset(t2, id + 2, song_id, AUDIO_INST, audio_inst_path)

\* SyncMediaAssetService.has_required_assets
required_types == <<VIDEO_MASTER, AUDIO_ORIGINAL, AUDIO_INST>>

\* has_required_assets without the MediaAsset.song_id == song_id filter.
HasRequiredAssetsOfAnySong(table, song_id) ==
    LET Wanted(a) ==
            \E i \in 1..Len(required_types) : a.type = required_types[i]
        existing_types == SelectSeq(table, Wanted)
        existing_type_set ==
            {existing_types[i].type : i \in 1..Len(existing_types)}
    IN  \A i \in 1..Len(required_types) :
            required_types[i] \in existing_type_set

HasRequiredAssets(table, song_id) ==
    LET Wanted(a) ==
            /\ a.song_id = song_id
            /\ \E i \in 1..Len(required_types) : a.type = required_types[i]
        existing_types == SelectSeq(table, Wanted)
        existing_type_set ==
            {existing_types[i].type : i \in 1..Len(existing_types)}
    IN  \A i \in 1..Len(required_types) :
            required_types[i] \in existing_type_set

\* The rows SELECT ... WHERE song_id = :song_id AND type = :type returns
MatchingAssets(table, song_id, asset_type) ==
    LET Match(a) == a.song_id = song_id /\ a.type = asset_type
    IN  SelectSeq(table, Match)

\* SyncMediaAssetService.get_asset_by_song_and_type: Query.first()
GetAssetBySongAndType(table, song_id, asset_type) ==
    LET rows == MatchingAssets(table, song_id, asset_type)
    IN  IF rows = <<>>
        THEN [outcome |-> "None", rows |-> <<>>]
        ELSE [outcome |-> "row", rows |-> <<Head(rows)>>]

\* MediaAssetService.get_asset_by_song_and_type: Result.scalar_one_or_none(),
\* which raises MultipleResultsFound when the SELECT returns several rows
ApiGetAssetBySongAndType(table, song_id, asset_type) ==
    LET rows == MatchingAssets(table, song_id, asset_type)
    IN  IF rows = <<>>
        THEN [outcome |-> "None", rows |-> <<>>]
        ELSE IF Len(rows) = 1
             THEN [outcome |-> "row", rows |-> <<Head(rows)>>]
             ELSE [outcome |-> "MultipleResultsFound", rows |-> <<>>]

\* get_assets_by_song(db, song_id): every record of the song, in table order
GetAssetsBySong(table, song_id) ==
    LET OfSong(a) == a.song_id = song_id
    IN  SelectSeq(table, OfSong)

\* A bulk DELETE whose WHERE clause is lost: every row goes.
DeleteEveryAsset(table, song_id) ==
    [table |-> <<>>, count |-> Len(table)]

\* worker delete_assets_by_song: one bulk DELETE ... WHERE song_id = :song_id,
\* whose row count is returned
DeleteAssetsBySong(table, song_id) ==
    LET Kept(a) == a.song_id # song_id
        rest == SelectSeq(table, Kept)
    IN  [table |-> rest, count |-> Len(table) - Len(rest)]

\* API delete_assets_by_song: the records of the song are listed, counted and
\* deleted one by one, then the session commits
ApiDeleteAssetsBySong(table, song_id) ==
    LET assets == GetAssetsBySong(table, song_id)
        Kept(a) == \A i \in 1..Len(assets) : assets[i].id # a.id
    IN  [table |-> SelectSeq(table, Kept), count |-> Len(assets)]

-----------------------------------------------------------------------------
(* process_song_task                                                       *)

IdleTask ==
    [pc |-> "idle", song_id |-> "s1", file_path |-> <<"/media/songs", "song", ".mp4">>,
     retries |-> 0, exc |-> "", soft_limit_hit |-> FALSE,
     assets_created |-> FALSE, result |-> "none"]

Init ==
    /\ songs \in [ExistingSongs -> [status : {PENDING}, meta_json : InitialMeta]]
    /\ media_assets = <<>>
    /\ next_id = 1
    /\ tasks = [j \in Jobs |-> IdleTask]
    /\ reply = NoReply
    /\ streams = NoStreams

\* submit(songId, sourcePath): the queue delivers the job to a worker
Submit(j, song_id, file_path) ==
    /\ tasks[j].pc = "idle"
    /\ tasks' = [tasks EXCEPT ![j] =
            [IdleTask EXCEPT !.pc = "step1", !.song_id = song_id,
                             !.file_path = file_path]]
    /\ UNCHANGED <<songs, media_assets, next_id, reply, streams>>

\* Step 1: with get_db_session() as db: ... song.status = PROCESSING; db.commit()
\* The soft time limit is signalled at most once per execution and raises
\* SoftTimeLimitExceeded at whatever line is running: before the commit (the
\* session rolls back) or after it.
Step1(j) ==
    LET t == tasks[j] IN
    /\ t.pc = "step1"
    /\ UNCHANGED <<media_assets, next_id, reply, streams>>
    /\ \/ \* if not song: return {"success": False, "error": "Song not found"}
          /\ ~SongExists(t.song_id)
          /\ tasks' = [tasks EXCEPT ![j].pc = "done", ![j].result = "not_found"]
          /\ UNCHANGED songs
       \/ \* the commit succeeds
          /\ SongExists(t.song_id)
          /\ songs' = [songs EXCEPT ![t.song_id] = WriteProcessing(@)]
          /\ tasks' = [tasks EXCEPT ![j].pc = "assets"]
       \/ \* the query or the commit raises: rollback, except Exception
          \E m \in ExcMessages :
              /\ tasks' = [tasks EXCEPT ![j].pc = "except_exception", ![j].exc = m]
              /\ UNCHANGED songs
       \/ \* soft time limit before the commit: rollback
          /\ tasks' = [tasks EXCEPT ![j].pc = "except_timeout",
                                    ![j].soft_limit_hit = TRUE]
          /\ UNCHANGED songs
       \/ \* soft time limit after the commit (lines 137-150)
          /\ SongExists(t.song_id)
          /\ songs' = [songs EXCEPT ![t.song_id] = WriteProcessing(@)]
          /\ tasks' = [tasks EXCEPT ![j].pc = "except_timeout",
                                    ![j].soft_limit_hit = TRUE]

\* Step 5: assets_created = _create_media_assets(...).  Its `except Exception`
\* also catches SoftTimeLimitExceeded (a subclass of Exception), so every
\* outcome returns to the task, which goes on to step 6.
CreateMediaAssets(j) ==
    LET t == tasks[j]
        output_paths == GenerateOutputPaths(t.song_id, t.file_path)
        inserted == CreateMediaAssetsForSong(media_assets, next_id, t.song_id,
                        output_paths.video_master, output_paths.audio_original,
                        output_paths.audio_inst)
    IN
    /\ t.pc = "assets"
    /\ UNCHANGED <<songs, reply, streams>>
    /\ \/ \* the three inserts and the commit succeed: return True
          /\ media_assets' = inserted
          /\ next_id' = next_id + 3
          /\ tasks' = [tasks EXCEPT ![j].pc = "step6", ![j].assets_created = TRUE]
       \/ \* an insert or the commit raises: rollback, return False
          /\ UNCHANGED <<media_assets, next_id>>
          /\ tasks' = [tasks EXCEPT ![j].pc = "step6", ![j].assets_created = FALSE]
       \/ \* soft time limit inside the session: rollback, return False
          /\ ~t.soft_limit_hit
          /\ UNCHANGED <<media_assets, next_id>>
          /\ tasks' = [tasks EXCEPT ![j].pc = "step6", ![j].assets_created = FALSE,
                                    ![j].soft_limit_hit = TRUE]
       \/ \* soft time limit after the commit (session.close()): return False
          /\ ~t.soft_limit_hit
          /\ media_assets' = inserted
          /\ next_id' = next_id + 3
          /\ tasks' = [tasks EXCEPT ![j].pc = "step6", ![j].assets_created = FALSE,
                                    ![j].soft_limit_hit = TRUE]

\* Step 6: with get_db_session() as db: ... song.status = READY; db.commit();
\* return {"success": True, ...}
Step6(j) ==
    LET t == tasks[j] IN
    /\ t.pc = "step6"
    /\ SongExists(t.song_id)
    /\ UNCHANGED <<media_assets, next_id, reply, streams>>
    /\ \/ /\ songs' = [songs EXCEPT ![t.song_id] = WriteReady(@)]
          /\ tasks' = [tasks EXCEPT ![j].pc = "done", ![j].result = "success"]
       \/ \E m \in ExcMessages :
              /\ tasks' = [tasks EXCEPT ![j].pc = "except_exception", ![j].exc = m]
              /\ UNCHANGED songs
       \/ /\ ~t.soft_limit_hit
          /\ tasks' = [tasks EXCEPT ![j].pc = "except_timeout",
                                    ![j].soft_limit_hit = TRUE]
          /\ UNCHANGED songs
       \/ /\ ~t.soft_limit_hit
          /\ songs' = [songs EXCEPT ![t.song_id] = WriteReady(@)]
          /\ tasks' = [tasks EXCEPT ![j].pc = "except_timeout",
                                    ![j].soft_limit_hit = TRUE]

\* _mark_song_failed(song_id, error_message): the write commits; or the query
\* finds no song, or the session raises and the function's own
\* `except Exception` logs and swallows the error: nothing is written.
MarkSongFailed(song_id, error_message) ==
    \/ /\ SongExists(song_id)
       /\ songs' = [songs EXCEPT ![song_id] = WriteFailed(@, error_message)]
    \/ UNCHANGED songs

\* except SoftTimeLimitExceeded: _mark_song_failed(song_id, "Processing
\* timeout"); return {"success": False, "error": "Processing timeout"}
ExceptSoftTimeLimit(j) ==
    LET t == tasks[j] IN
    /\ t.pc = "except_timeout"
    /\ MarkSongFailed(t.song_id, TIMEOUT_MESSAGE)
    /\ tasks' = [tasks EXCEPT ![j].pc = "done", ![j].result = "timeout"]
    /\ UNCHANGED <<media_assets, next_id, reply, streams>>

\* except Exception as e: _mark_song_failed(song_id, str(e)); raise.
\* autoretry_for=(Exception,) turns the raise into self.retry(exc=e), which
\* re-queues the job while request.retries < max_retries and re-raises e
\* (the task fails) once the retries are used up.  A soft time limit raised
\* inside this handler is swallowed by _mark_song_failed or reaches autoretry
\* as one more Exception: the successor states are the ones below.
ExceptException(j) ==
    LET t == tasks[j] IN
    /\ t.pc = "except_exception"
    /\ MarkSongFailed(t.song_id, t.exc)
    /\ IF t.retries < max_retries
       THEN tasks' = [tasks EXCEPT ![j].pc = "step1",
                                   ![j].retries = t.retries + 1,
                                   ![j].soft_limit_hit = FALSE,
                                   ![j].assets_created = FALSE]
       ELSE tasks' = [tasks EXCEPT ![j].pc = "done", ![j].result = "failed"]
    /\ UNCHANGED <<media_assets, next_id, reply, streams>>

Next ==
    \/ \E j \in Jobs, s \in SongIds, p \in FilePaths : Submit(j, s, p)
    \/ \E j \in Jobs : Step1(j)
    \/ \E j \in Jobs : CreateMediaAssets(j)
    \/ \E j \in Jobs : Step6(j)
    \/ \E j \in Jobs : ExceptSoftTimeLimit(j)
    \/ \E j \in Jobs : ExceptException(j)

Spec == Init /\ [][Next]_vars

-----------------------------------------------------------------------------
(* The registry on its own: records are created and queried directly       *)

\* create_asset(db, song_id, asset_type, path) and its commit
CallCreateAsset(song_id, asset_type) ==
    /\ next_id <= MaxAssets
    /\ media_assets' =
           CreateAsset(media_assets, next_id, song_id, asset_type, SinglePath)
    /\ next_id' = next_id + 1
    /\ reply' = NoReply
    /\ UNCHANGED <<songs, tasks, streams>>

\* create_media_assets_for_song(db, song_id, ...) and its commit
CallCreateMediaAssetsForSong(song_id, file_path) ==
    LET output_paths == GenerateOutputPaths(song_id, file_path) IN
    /\ next_id + 2 <= MaxAssets
    /\ media_assets' =
           CreateMediaAssetsForSong(media_assets, next_id, song_id,
               output_paths.video_master, output_paths.audio_original,
               output_paths.audio_inst)
    /\ next_id' = next_id + 3
    /\ reply' = [op |-> "create_media_assets_for_song", song_id |-> song_id,
                 video_path |-> output_paths.video_master,
                 audio_original_path |-> output_paths.audio_original,
                 audio_inst_path |-> output_paths.audio_inst,
                 assets |-> SubSeq(media_assets', Len(media_assets) + 1,
                                   Len(media_assets'))]
    /\ UNCHANGED <<songs, tasks, streams>>

\* has_required_assets(db, song_id)
CallHasRequiredAssets(song_id) ==
    /\ reply' = [op |-> "has_required_assets", song_id |-> song_id,
                 value |-> HasRequiredAssets(media_assets, song_id)]
    /\ UNCHANGED <<songs, media_assets, next_id, tasks, streams>>

\* get_asset_by_song_and_type(db, song_id, asset_type) of either service
CallGetAssetBySongAndType(service, song_id, asset_type) ==
    /\ reply' = [op |-> "get_asset_by_song_and_type", service |-> service,
                 song_id |-> song_id, type |-> asset_type,
                 result |-> IF service = "worker"
                            THEN GetAssetBySongAndType(media_assets, song_id,
                                                       asset_type)
                            ELSE ApiGetAssetBySongAndType(media_assets, song_id,
                                                          asset_type)]
    /\ UNCHANGED <<songs, media_assets, next_id, tasks, streams>>

\* delete_assets_by_song(db, song_id) of either service and its commit
CallDeleteAssetsBySong(service, song_id) ==
    LET deleted == IF service = "worker"
                   THEN DeleteAssetsBySong(media_assets, song_id)
                   ELSE ApiDeleteAssetsBySong(media_assets, song_id) IN
    /\ media_assets' = deleted.table
    /\ reply' = [op |-> "delete_assets_by_song", service |-> service,
                 song_id |-> song_id, count |-> deleted.count]
    /\ UNCHANGED <<songs, next_id, tasks, streams>>

NextRegistry ==
    \/ \E s \in SongIds, ty \in RegistryTypes : CallCreateAsset(s, ty)
    \/ \E s \in SongIds, p \in FilePaths : CallCreateMediaAssetsForSong(s, p)
    \/ \E s \in SongIds : CallHasRequiredAssets(s)
    \/ \E sv \in Services, s \in SongIds, ty \in RegistryTypes :
           CallGetAssetBySongAndType(sv, s, ty)
    \/ \E sv \in Services, s \in SongIds : CallDeleteAssetsBySong(sv, s)

\* The registry calls read no song row and no task: one song table suffices.
InitRegistry ==
    /\ Init
    /\ \A s \in DOMAIN songs : songs[s].meta_json = NoneMeta

SpecRegistry == InitRegistry /\ [][NextRegistry]_vars

-----------------------------------------------------------------------------
(* HTTP Range headers: strings are sequences of one-character strings      *)

MaxOffset == 12
MaxFileSize == 12

DigitChars == <<"0", "1", "2", "3", "4", "5", "6", "7", "8", "9">>

IsDigit(c) == \E d \in DOMAIN DigitChars : DigitChars[d] = c

DigitValue(c) == (CHOOSE d \in DOMAIN DigitChars : DigitChars[d] = c) - 1

Max(a, b) == IF a >= b THEN a ELSE b

Min(a, b) == IF a <= b THEN a ELSE b

\* str(n) of a non-negative integer, as the f-strings format it
RECURSIVE Str(_)
Str(n) ==
    IF n < Len(DigitChars)
    THEN <<DigitChars[n + 1]>>
    ELSE Str(n \div Len(DigitChars)) \o <<DigitChars[(n % Len(DigitChars)) + 1]>>

\* int(s) of a string of decimal digits
RECURSIVE IntOf(_)
IntOf(s) ==
    IF s = <<>>
    THEN 0
    ELSE IntOf(SubSeq(s, 1, Len(s) - 1)) * Len(DigitChars) + DigitValue(s[Len(s)])

\* The length of the longest run of digits of s that starts at position i:
\* what a greedy \d* consumes there.
RECURSIVE DigitRun(_, _)
DigitRun(s, i) ==
    IF i <= Len(s) /\ IsDigit(s[i]) THEN 1 + DigitRun(s, i + 1) ELSE 0

BytesUnit == <<"b", "y", "t", "e", "s", "=">>

\* re.match(r"bytes=(\d*)-(\d*)", range_header): the pattern is matched at
\* the start of the string and nothing is required of what follows the match
ReMatch(range_header) ==
    LET first == Len(BytesUnit) + 1
        dash == first + DigitRun(range_header, first)
        last == dash + DigitRun(range_header, dash + 1)
    IN  IF /\ Len(range_header) >= dash
           /\ SubSeq(range_header, 1, Len(BytesUnit)) = BytesUnit
           /\ range_header[dash] = "-"
        THEN [matched |-> TRUE,
              start_str |-> SubSeq(range_header, first, dash - 1),
              end_str |-> SubSeq(range_header, dash + 1, last)]
        ELSE [matched |-> FALSE, start_str |-> <<>>, end_str |-> <<>>]

\* The suffix form with the length counted one byte short.
SuffixRangeOffByOne(end_str, file_size) ==
    [start |-> Max(0, file_size - IntOf(end_str) + 1), end |-> file_size - 1]

\* bytes=-N: the last N bytes
SuffixRange(end_str, file_size) ==
    [start |-> Max(0, file_size - IntOf(end_str)), end |-> file_size - 1]

\* The open form read as the whole file.
OpenRangeFromZero(start_str, file_size) ==
    [start |-> 0, end |-> file_size - 1]

\* bytes=N-: from N to the end of the file
OpenRange(start_str, file_size) ==
    [start |-> IntOf(start_str), end |-> file_size - 1]

\* bytes=N-M
ExplicitRange(start_str, end_str) ==
    [start |-> IntOf(start_str), end |-> IntOf(end_str)]

\* The end compared with > where the code compares with >=.
ClampRangeOffByOne(range, file_size) ==
    [start |-> IF range.start < 0 THEN 0 ELSE range.start,
     end |-> IF range.end > file_size THEN file_size - 1 ELSE range.end]

\* Only the start is brought into the file.
ClampStartOnly(range, file_size) ==
    [start |-> IF range.start < 0 THEN 0 ELSE range.start, end |-> range.end]

\* if start < 0: start = 0; if end >= file_size: end = file_size - 1
ClampRange(range, file_size) ==
    [start |-> IF range.start < 0 THEN 0 ELSE range.start,
     end |-> IF range.end >= file_size THEN file_size - 1 ELSE range.end]

\* The empty range one past the end accepted.
StartAfterEndByTwo(range) == range.start > range.end + 1

\* if start > end: raise ValueError
StartAfterEnd(range) == range.start > range.end

ValueError(message) == [outcome |-> "ValueError", message |-> message]

ParseRangeHeader(range_header, file_size) ==
    LET match == ReMatch(range_header)
        start_str == match.start_str
        end_str == match.end_str
        requested == IF start_str = <<>>
                     THEN SuffixRange(end_str, file_size)
                     ELSE IF end_str = <<>>
                          THEN OpenRange(start_str, file_size)
                          ELSE ExplicitRange(start_str, end_str)
        range == ClampRange(requested, file_size)
    IN  IF ~match.matched
        THEN ValueError("Invalid Range header format")
        ELSE IF start_str = <<>> /\ end_str = <<>>
             THEN ValueError("Both start and end cannot be empty")
             ELSE IF StartAfterEnd(range)
                  THEN ValueError("Invalid range")
                  ELSE [outcome |-> "ok", start |-> range.start,
                        end |-> range.end]

\* The headers the tests build: f"bytes={start}-{end}", f"bytes={start}-"
\* and f"bytes=-{suffix_length}"
StandardHeader(start, end) == BytesUnit \o Str(start) \o <<"-">> \o Str(end)

OpenEndHeader(start) == BytesUnit \o Str(start) \o <<"-">>

SuffixHeader(suffix_length) == BytesUnit \o <<"-">> \o Str(suffix_length)

\* Inputs: headers put together from a unit, two numbers (absent, formatted,
\* or written with leading zeros), a separator and what follows the range
HeaderUnits == {BytesUnit, <<"i", "t", "e", "m", "s", "=">>, <<" ", "b", "y", "t", "e", "s", "=">>, <<"B", "y", "t", "e", "s", "=">>}

NumberStrings == {<<>>, <<"0", "0", "7">>} \cup {Str(n) : n \in 0..MaxOffset}

Separators == {<<"-">>, <<>>}

Trailers == {<<>>, <<",", "7", "-", "9">>, <<"a", "b", "c">>}

RangeHeaders ==
    {u \o a \o d \o b \o t :
        u \in HeaderUnits, a \in NumberStrings, d \in Separators,
        b \in NumberStrings, t \in Trailers} \cup {<<>>, <<"i", "n", "v", "a", "l", "i", "d">>}

FileSizes == 0..MaxFileSize

NotCalled == [outcome |-> "not called"]

\* One call of parse_range_header on the drawn inputs
CallParseRangeHeader ==
    /\ reply.op = "parse_range_header"
    /\ reply.result = NotCalled
    /\ reply' = [reply EXCEPT
                    !.result = ParseRangeHeader(reply.range_header,
                                                reply.file_size)]
    /\ UNCHANGED <<songs, media_assets, next_id, tasks, streams>>

NextRange == CallParseRangeHeader

InitRange ==
    /\ songs = [s \in ExistingSongs |-> [status |-> PENDING, meta_json |-> NoneMeta]]
    /\ media_assets = <<>>
    /\ next_id = 1
    /\ streams = NoStreams
    /\ tasks = [j \in Jobs |-> IdleTask]
    /\ reply \in [op : {"parse_range_header"}, range_header : RangeHeaders,
                  file_size : FileSizes, result : {NotCalled}]

SpecRange == InitRange /\ [][NextRange]_vars

-----------------------------------------------------------------------------
(* GET /api/stream/{asset_id}                                              *)

\* The strings that path components are made of, as characters
Chars ==
    ("song" :> <<"s", "o", "n", "g">>) @@
    ("extra" :> <<"e", "x", "t", "r", "a">>) @@
    (".mp4" :> <<".", "m", "p", "4">>) @@
    ("_original.mp3" :> <<"_", "o", "r", "i", "g", "i", "n", "a", "l", ".", "m", "p", "3">>) @@
    ("_inst.mp3" :> <<"_", "i", "n", "s", "t", ".", "m", "p", "3">>) @@
    ("_vocal.mp3" :> <<"_", "v", "o", "c", "a", "l", ".", "m", "p", "3">>) @@
    (".vtt" :> <<".", "v", "t", "t">>) @@
    (".bin" :> <<".", "b", "i", "n">>)

\* The name of a stored file as os.path sees it.  splitext reads the last
\* component only, and no directory of the model holds a dot: the
\* directories are written as one separator.
PathChars(file_path) == <<"/">> \o Chars[file_path[2]] \o Chars[file_path[3]]

LowerChars == <<"a", "b", "c", "d", "e", "f", "g", "h", "i", "j", "k", "l", "m", "n", "o", "p", "q", "r", "s", "t", "u", "v", "w", "x", "y", "z">>

UpperChars == <<"A", "B", "C", "D", "E", "F", "G", "H", "I", "J", "K", "L", "M", "N", "O", "P", "Q", "R", "S", "T", "U", "V", "W", "X", "Y", "Z">>

LowerChar(c) ==
    IF \E i \in DOMAIN UpperChars : UpperChars[i] = c
    THEN LowerChars[CHOOSE i \in DOMAIN UpperChars : UpperChars[i] = c]
    ELSE c

\* A lookup that keeps the case of the extension.
LowerNothing(s) == s

\* str.lower()
Lower(s) == [i \in DOMAIN s |-> LowerChar(s[i])]

\* str.rfind(c), counted from 1; 0 when c does not occur
RFind(s, c) ==
    LET at == {i \in DOMAIN s : s[i] = c}
    IN  IF at = {} THEN 0 ELSE CHOOSE i \in at : \A k \in at : k <= i

\* os.path.splitext(p)[1]: the text from the last dot of the last component,
\* unless only dots precede it in the component
Splitext(p) ==
    LET sepIndex == RFind(p, "/")
        dotIndex == RFind(p, ".")
    IN  IF /\ dotIndex > sepIndex
           /\ \E k \in (sepIndex + 1)..(dotIndex - 1) : p[k] # "."
        THEN SubSeq(p, dotIndex, Len(p))
        ELSE <<>>

MimeTable ==
    <<<<<<".", "m", "p", "4">>, "video/mp4">>,
      <<<<".", "w", "e", "b", "m">>, "video/webm">>,
      <<<<".", "m", "k", "v">>, "video/x-matroska">>,
      <<<<".", "a", "v", "i">>, "video/x-msvideo">>,
      <<<<".", "m", "o", "v">>, "video/quicktime">>,
      <<<<".", "m", "p", "3">>, "audio/mpeg">>,
      <<<<".", "w", "a", "v">>, "audio/wav">>,
      <<<<".", "f", "l", "a", "c">>, "audio/flac">>,
      <<<<".", "a", "a", "c">>, "audio/aac">>,
      <<<<".", "o", "g", "g">>, "audio/ogg">>,
      <<<<".", "m", "4", "a">>, "audio/mp4">>>>

MIME_TYPES ==
    [ext \in {MimeTable[i][1] : i \in DOMAIN MimeTable} |->
        MimeTable[CHOOSE i \in DOMAIN MimeTable : MimeTable[i][1] = ext][2]]

\* get_content_type(file_path)
GetContentType(file_path) ==
    LET ext == Lower(Splitext(file_path))
    IN  IF ext \in DOMAIN MIME_TYPES
        THEN MIME_TYPES[ext]
        ELSE "application/octet-stream"

\* GetMediaAsset without its WHERE clause: any id finds the first record.
GetAnyMediaAsset(table, asset_id) ==
    IF table = <<>>
    THEN [outcome |-> "None", rows |-> <<>>]
    ELSE [outcome |-> "row", rows |-> <<Head(table)>>]

\* get_media_asset(db, asset_id): the record of that id, or None
GetMediaAsset(table, asset_id) ==
    LET HasId(a) == a.id = asset_id
        rows == SelectSeq(table, HasId)
    IN  IF rows = <<>>
        THEN [outcome |-> "None", rows |-> <<>>]
        ELSE [outcome |-> "row", rows |-> <<Head(rows)>>]

\* raise HTTPException(status_code, detail, headers): the answer carries the
\* detail as its body and nothing of the file
HTTPException(status_code, headers) ==
    [status |-> status_code, headers |-> headers, body |-> [kind |-> "detail"]]

\* StreamingResponse(file_iterator(file_path, start, end), status_code, headers)
StreamingResponse(file_path, start, end, status_code, headers) ==
    [status |-> status_code, headers |-> headers,
     body |-> [kind |-> "file_iterator", file_path |-> file_path,
               start |-> start, end |-> end]]

NoHeaders == [name \in {} |-> <<>>]

\* f"bytes {start}-{end}/{file_size}"
ContentRange(start, end, file_size) ==
    <<"b", "y", "t", "e", "s", " ">> \o Str(start) \o <<"-">> \o Str(end) \o <<"/">> \o Str(file_size)

\* f"bytes */{file_size}"
UnsatisfiedContentRange(file_size) == <<"b", "y", "t", "e", "s", " ", "*", "/">> \o Str(file_size)

\* The length counted without the last byte.
ContentLengthExclusive(start, end) == end - start

\* content_length = end - start + 1
ContentLength(start, end) == end - start + 1

\* request.headers.get("Range"): None when the request has no Range header
NoRange == [present |-> FALSE, value |-> <<>>]

\* stream_media(asset_id, request, db); file is what os.path.exists and
\* os.path.getsize find at the path of the asset.  Every path of the model is
\* absolute, so os.path.join(MEDIA_ROOT, asset.path) is asset.path.
StreamMedia(table, asset_id, range_header, file) ==
    LET asset == GetMediaAsset(table, asset_id)
        file_path == asset.rows[1].path
        file_size == file.size
        content_type == GetContentType(PathChars(file_path))
        parsed == ParseRangeHeader(range_header.value, file_size)
        content_length == ContentLength(parsed.start, parsed.end)
    IN  IF asset.outcome = "None"
        THEN HTTPException(404, NoHeaders)
        ELSE IF ~file.exists
        THEN HTTPException(404, NoHeaders)
        ELSE IF range_header.present /\ range_header.value # <<>>
        THEN IF parsed.outcome = "ValueError"
             THEN HTTPException(416,
                      "Content-Range" :> UnsatisfiedContentRange(file_size))
             ELSE StreamingResponse(file_path, parsed.start, parsed.end, 206,
                      ("Content-Range" :>
                           ContentRange(parsed.start, parsed.end, file_size))
                      @@ ("Accept-Ranges" :> <<"b", "y", "t", "e", "s">>)
                      @@ ("Content-Length" :> Str(content_length))
                      @@ ("Content-Type" :> content_type))
        ELSE StreamingResponse(file_path, 0, file_size - 1, 200,
                      ("Accept-Ranges" :> <<"b", "y", "t", "e", "s">>)
                      @@ ("Content-Length" :> Str(file_size))
                      @@ ("Content-Type" :> content_type))

\* Response(content=b"", headers=...): status 200 and an empty body
Response(headers) ==
    [status |-> 200, headers |-> headers, body |-> [kind |-> "empty"]]

\* The length of the empty body instead of the length of the file.
HeadContentLengthOfBody(file_size) == Str(0)

\* "Content-Length": str(file_size) of head_media
HeadContentLength(file_size) == Str(file_size)

\* head_media(asset_id, db): the request headers are not read
HeadMedia(table, asset_id, file) ==
    LET asset == GetMediaAsset(table, asset_id)
        file_path == asset.rows[1].path
        file_size == file.size
        content_type == GetContentType(PathChars(file_path))
    IN  IF asset.outcome = "None"
        THEN HTTPException(404, NoHeaders)
        ELSE IF ~file.exists
        THEN HTTPException(404, NoHeaders)
        ELSE Response(("Accept-Ranges" :> <<"b", "y", "t", "e", "s">>)
                      @@ ("Content-Length" :> HeadContentLength(file_size))
                      @@ ("Content-Type" :> content_type))

\* Inputs: the Range header of the request and the file found in storage
RequestRanges == {NoRange} \cup [present : {TRUE}, value : RangeHeaders]

StoredFiles ==
    {[exists |-> FALSE, size |-> 0]} \cup [exists : {TRUE}, size : FileSizes]

\* One GET request answered
CallStreamMedia ==
    /\ reply.op = "stream_media"
    /\ reply.response = NotCalled
    /\ reply' = [reply EXCEPT
                    !.response = StreamMedia(media_assets, reply.asset_id,
                                             reply.range_header, reply.file)]
    /\ UNCHANGED <<songs, media_assets, next_id, tasks, streams>>

\* One HEAD request answered
CallHeadMedia ==
    /\ reply.op = "head_media"
    /\ reply.response = NotCalled
    /\ reply' = [reply EXCEPT
                    !.response = HeadMedia(media_assets, reply.asset_id,
                                           reply.file)]
    /\ UNCHANGED <<songs, media_assets, next_id, tasks, streams>>

NextStream == CallStreamMedia \/ CallHeadMedia

\* The three artifacts of one processed song are registered; the request
\* names one of them or an id that was never issued.
InitStream ==
    /\ songs = [s \in ExistingSongs |-> [status |-> READY, meta_json |-> NoneMeta]]
    /\ \E s \in ExistingSongs, p \in FilePaths :
           LET output_paths == GenerateOutputPaths(s, p)
           IN  media_assets =
                   CreateMediaAssetsForSong(<<>>, 1, s,
                       output_paths.video_master, output_paths.audio_original,
                       output_paths.audio_inst)
    /\ next_id = Len(required_types) + 1
    /\ streams = NoStreams
    /\ tasks = [j \in Jobs |-> IdleTask]
    /\ reply \in [op : {"stream_media", "head_media"}, asset_id : 1..next_id,
                  range_header : RequestRanges, file : StoredFiles,
                  response : {NotCalled}]

SpecStream == InitStream /\ [][NextStream]_vars

-----------------------------------------------------------------------------
(* get_content_type on its own                                             *)

UpperChar(c) ==
    IF \E i \in DOMAIN LowerChars : LowerChars[i] = c
    THEN UpperChars[CHOOSE i \in DOMAIN LowerChars : LowerChars[i] = c]
    ELSE c

\* The ways an extension is written: lower case, upper case, capitalised
Casings(s) ==
    {s, [i \in DOMAIN s |-> UpperChar(s[i])],
     [i \in DOMAIN s |-> IF i = 2 THEN UpperChar(s[i]) ELSE s[i]]}

\* Inputs: names put together from a directory, a stem and an extension; the
\* extension is one of the table in some casing, or another text
NameDirs == {<<>>, <<"m", "e", "d", "i", "a", "/">>, <<"a", ".", "m", "p", "3", "/">>}

NameStems == {<<>>, <<"s", "o", "n", "g">>, <<"a", ".", "b">>}

OtherExtensions == {<<>>, <<".">>, <<".", "x", "y", "z">>, <<".", "b", "i", "n">>, <<".", "m", "p">>, <<".", "m", "p", "4", "4">>, <<"m", "p", "4">>}

CallGetContentType ==
    /\ reply.op = "get_content_type"
    /\ reply.result.outcome = "not called"
    /\ reply' = [reply EXCEPT
                    !.result = [outcome |-> "returned",
                                value |-> GetContentType(reply.file_path)]]
    /\ UNCHANGED <<songs, media_assets, next_id, tasks, streams>>

NextContentType == CallGetContentType

InitContentType ==
    /\ songs = [s \in ExistingSongs |-> [status |-> PENDING, meta_json |-> NoneMeta]]
    /\ media_assets = <<>>
    /\ next_id = 1
    /\ streams = NoStreams
    /\ tasks = [j \in Jobs |-> IdleTask]
    /\ \E d \in NameDirs, st \in NameStems :
           \/ \E i \in DOMAIN MimeTable : \E c \in Casings(MimeTable[i][1]) :
                  reply = [op |-> "get_content_type", file_path |-> d \o st \o c,
                           stem |-> st, extension |-> c,
                           table_type |-> MimeTable[i][2],
                           result |-> NotCalled]
           \/ \E x \in OtherExtensions :
                  reply = [op |-> "get_content_type", file_path |-> d \o st \o x,
                           stem |-> st, extension |-> x,
                           table_type |-> "none",
                           result |-> NotCalled]

SpecContentType == InitContentType /\ [][NextContentType]_vars

-----------------------------------------------------------------------------
(* file_iterator: the generator behind a streamed body                     *)

MaxChunk == 3

\* chunk_size: int = 8192
DefaultChunkSize == 8192

\* The bytes of a file of n bytes; the byte at offset k has the value k, so
\* that a chunk shows where it was read.
FileBytes(n) == [i \in 1..n |-> i - 1]

\* f.read(read_size) at the current position of a regular file: the next
\* read_size bytes, fewer at the end of the file, none behind it
Read(file, position, read_size) ==
    SubSeq(file, position + 1, Min(position + read_size, Len(file)))

\* A read of a whole chunk whatever remains of the range.
ReadSizeWholeChunk(chunk_size, remaining) == chunk_size

\* read_size = min(chunk_size, remaining)
ReadSize(chunk_size, remaining) == Min(chunk_size, remaining)

\* A handle that is closed at the end of the loop only.
CloseAtEndOfLoop(handle, exit) ==
    IF exit = "return" THEN "closed" ELSE handle

\* with open(file_path, "rb") as f: the block is left by return, by the
\* GeneratorExit that generator.close() raises at the yield, or by an
\* exception of a read; the handle is closed on each of them
WithExit(handle, exit) == "closed"

\* file_iterator(file_path, start, end, chunk_size): the generator object is
\* created; nothing of its body runs before the first next()
FileIterator(file, start, end, chunk_size) ==
    [IdleStream EXCEPT !.pc = "created", !.file = file, !.start = start,
                       !.end = end, !.chunk_size = chunk_size]

\* The first next(): open(file_path, "rb"); f.seek(start);
\* remaining = end - start + 1
IterOpen(r) ==
    LET g == streams[r] IN
    /\ g.pc = "created"
    /\ streams' = [streams EXCEPT ![r] =
            [g EXCEPT !.pc = "loop", !.handle = "open", !.position = g.start,
                      !.remaining = g.end - g.start + 1]]
    /\ UNCHANGED <<songs, media_assets, next_id, tasks, reply>>

\* One turn of `while remaining > 0`, entered by the first next() or by the
\* next() that resumes the generator behind its yield
IterRead(r) ==
    LET g == streams[r]
        read_size == ReadSize(g.chunk_size, g.remaining)
        data == Read(g.file, g.position, read_size)
    IN
    /\ g.pc \in {"loop", "yielded"}
    /\ streams' = [streams EXCEPT ![r] =
            IF g.remaining > 0 /\ data # <<>>
            THEN [g EXCEPT !.pc = "yielded",
                           !.remaining = g.remaining - Len(data),
                           !.position = g.position + Len(data),
                           !.chunks = Append(g.chunks, data)]
            ELSE [g EXCEPT !.pc = "exhausted",
                           !.handle = WithExit(g.handle, "return")]]
    /\ UNCHANGED <<songs, media_assets, next_id, tasks, reply>>

NextIterator == \E r \in Requests : IterOpen(r) \/ IterRead(r)

\* Inputs: one generator over a file of any length, shorter files than the
\* range included, and any chunk size
InitIterator ==
    /\ songs = [s \in ExistingSongs |-> [status |-> READY, meta_json |-> NoneMeta]]
    /\ media_assets = <<>>
    /\ next_id = 1
    /\ tasks = [j \in Jobs |-> IdleTask]
    /\ reply = NoReply
    /\ \E n \in FileSizes, start \in 0..MaxOffset, end \in 0..MaxOffset,
          chunk_size \in 1..MaxChunk :
           streams = [NoStreams EXCEPT !["r1"] =
                          FileIterator(FileBytes(n), start, end, chunk_size)]

SpecIterator == InitIterator /\ [][NextIterator]_vars

\* The consumer keeps calling next() until the generator is exhausted.
FairSpecIterator == SpecIterator /\ WF_vars(NextIterator)

-----------------------------------------------------------------------------
(* Requests and their bodies: GET answered, then the body is iterated      *)

\* stream_media returns; a StreamingResponse holds the generator of its body
GetRequest(r, asset_id, range_header, file) ==
    LET response == StreamMedia(media_assets, asset_id, range_header, file) IN
    /\ streams[r].pc = "idle"
    /\ streams' = [streams EXCEPT ![r] =
            IF response.body.kind = "file_iterator"
            THEN [FileIterator(FileBytes(file.size), response.body.start,
                               response.body.end, DefaultChunkSize)
                     EXCEPT !.status = response.status]
            ELSE [IdleStream EXCEPT !.pc = "answered",
                                    !.status = response.status]]
    /\ UNCHANGED <<songs, media_assets, next_id, tasks, reply>>

\* open(file_path, "rb") raises: the file went away after the handler's check
OpenRaises(r) ==
    /\ streams[r].pc = "created"
    /\ streams' = [streams EXCEPT ![r].pc = "failed"]
    /\ UNCHANGED <<songs, media_assets, next_id, tasks, reply>>

\* f.read(read_size) raises inside the with block
ReadRaises(r) ==
    LET g == streams[r] IN
    /\ g.pc \in {"loop", "yielded"}
    /\ streams' = [streams EXCEPT ![r] =
            [g EXCEPT !.pc = "failed",
                      !.handle = WithExit(g.handle, "exception")]]
    /\ UNCHANGED <<songs, media_assets, next_id, tasks, reply>>

\* The client disconnects and the generator is closed: a generator that was
\* never started just ends, one suspended at its yield gets GeneratorExit
Disconnect(r) ==
    LET g == streams[r] IN
    /\ g.pc \in {"created", "yielded"}
    /\ streams' = [streams EXCEPT ![r] =
            [g EXCEPT !.pc = "closed",
                      !.handle = IF g.pc = "created"
                                 THEN g.handle
                                 ELSE WithExit(g.handle, "GeneratorExit")]]
    /\ UNCHANGED <<songs, media_assets, next_id, tasks, reply>>

\* Inputs of the requests
HandleRanges ==
    {NoRange, [present |-> TRUE, value |-> StandardHeader(0, 1)],
     [present |-> TRUE, value |-> SuffixHeader(0)],
     [present |-> TRUE, value |-> <<"i", "n", "v", "a", "l", "i", "d">>]}

HandleFiles ==
    {[exists |-> FALSE, size |-> 0], [exists |-> TRUE, size |-> 0],
     [exists |-> TRUE, size |-> MaxChunk]}

NextHandles ==
    \/ \E r \in Requests, id \in {1, next_id}, h \in HandleRanges,
          f \in HandleFiles : GetRequest(r, id, h, f)
    \/ \E r \in Requests : IterOpen(r)
    \/ \E r \in Requests : IterRead(r)
    \/ \E r \in Requests : OpenRaises(r)
    \/ \E r \in Requests : ReadRaises(r)
    \/ \E r \in Requests : Disconnect(r)

InitHandles ==
    /\ songs = [s \in ExistingSongs |-> [status |-> READY, meta_json |-> NoneMeta]]
    /\ \E s \in ExistingSongs, p \in FilePaths :
           LET output_paths == GenerateOutputPaths(s, p)
           IN  media_assets =
                   CreateMediaAssetsForSong(<<>>, 1, s,
                       output_paths.video_master, output_paths.audio_original,
                       output_paths.audio_inst)
    /\ next_id = Len(required_types) + 1
    /\ tasks = [j \in Jobs |-> IdleTask]
    /\ reply = NoReply
    /\ streams = NoStreams

SpecHandles == InitHandles /\ [][NextHandles]_vars

-----------------------------------------------------------------------------
(* A client streams while a song is processed                              *)

\* GET /api/stream/{asset_id} answered against the registry of the moment
ServeGet(asset_id, range_header, file) ==
    /\ reply' = [op |-> "stream_media", asset_id |-> asset_id,
                 range_header |-> range_header, file |-> file,
                 response |-> StreamMedia(media_assets, asset_id,
                                          range_header, file)]
    /\ UNCHANGED <<songs, media_assets, next_id, tasks, streams>>

\* One delivery of the job and a client that asks for the first artifacts
NextServe ==
    \/ \E s \in SongIds, p \in FilePaths : Submit("j1", s, p)
    \/ Step1("j1")
    \/ CreateMediaAssets("j1")
    \/ Step6("j1")
    \/ ExceptSoftTimeLimit("j1")
    \/ ExceptException("j1")
    \/ \E id \in 1..Len(required_types), h \in HandleRanges, f \in HandleFiles :
           ServeGet(id, h, f)

SpecServe == InitRegistry /\ [][NextServe]_vars

-----------------------------------------------------------------------------
(* Two deliveries for one song, every database operation succeeding        *)

\* Step 1 without a failing query or commit
Step1Ok(j) == Step1(j) /\ tasks'[j].pc # "except_exception"

\* Step 5 without a failing insert or commit
CreateMediaAssetsOk(j) ==
    /\ CreateMediaAssets(j)
    /\ \/ tasks'[j].assets_created
       \/ tasks'[j].soft_limit_hit /\ ~tasks[j].soft_limit_hit

\* Step 6 without a failing query or commit
Step6Ok(j) == Step6(j) /\ tasks'[j].pc # "except_exception"

\* The timeout handler whose _mark_song_failed commits
ExceptSoftTimeLimitOk(j) ==
    /\ ExceptSoftTimeLimit(j)
    /\ songs' = [songs EXCEPT ![tasks[j].song_id] =
                     WriteFailed(@, TIMEOUT_MESSAGE)]

NextAllOk ==
    \/ \E j \in Jobs, s \in ExistingSongs, p \in FilePaths : Submit(j, s, p)
    \/ \E j \in Jobs : Step1Ok(j)
    \/ \E j \in Jobs : CreateMediaAssetsOk(j)
    \/ \E j \in Jobs : Step6Ok(j)
    \/ \E j \in Jobs : ExceptSoftTimeLimitOk(j)

SpecAllOk == Init /\ [][NextAllOk]_vars

-----------------------------------------------------------------------------
(* Properties of the processing lifecycle                                  *)

\* j is the only delivery of a job: no other execution touches the tables.
OnlyJob(j) == \A k \in Jobs \ {j} : tasks[k].pc = "idle"

\* meta_json.get(key), with None read as the empty mapping
MetaGet(row, key) ==
    IF row.meta_json.none THEN Absent ELSE row.meta_json.items[key]

HasError(row) == MetaGet(row, "error") \notin {Absent, ""}

\* The message the running except-clause hands to _mark_song_failed.
FailureMessage(t) ==
    IF t.pc = "except_timeout" THEN TIMEOUT_MESSAGE ELSE t.exc

\* C1: every song in READY (only the worker writes READY) has at least one
\* record of each of video_master, audio_original and audio_inst.
C1_ReadyHasRequiredAssets ==
    \A s \in DOMAIN songs :
        songs[s].status = READY => HasRequiredAssets(media_assets, s)

\* C2: an execution on an existing song that ended in failure (timeout or
\* retries used up) leaves the song FAILED with a non-empty error, and every
\* FAILED song has a non-empty error.
C2_FailureLeavesFailedWithError ==
    /\ \A j \in Jobs :
           ( /\ OnlyJob(j)
             /\ tasks[j].pc = "done"
             /\ tasks[j].result \in {"timeout", "failed"}
             /\ SongExists(tasks[j].song_id) )
           => /\ songs[tasks[j].song_id].status = FAILED
              /\ HasError(songs[tasks[j].song_id])
    /\ \A s \in DOMAIN songs : songs[s].status = FAILED => HasError(songs[s])

\* C3: every step of the worker keeps every meta_json key other than "error"
\* (None read as the empty mapping), and a step that takes a song to FAILED
\* stores the message of that failure under "error".
C3_TransitionsPreserveMeta ==
    [][\A s \in DOMAIN songs :
          /\ \A k \in MetaKeys \ {"error"} :
                 MetaGet(songs'[s], k) = MetaGet(songs[s], k)
          /\ \A j \in Jobs :
                 ( /\ tasks[j].pc \in {"except_timeout", "except_exception"}
                   /\ tasks'[j] # tasks[j]
                   /\ tasks[j].song_id = s
                   /\ songs[s].status # FAILED
                   /\ songs'[s].status = FAILED )
                 => MetaGet(songs'[s], "error") = FailureMessage(tasks[j])
      ]_vars

\* C4: FAILED is never stored while a further automatic retry of the same
\* submission is still going to run.
C4_NoFailedBeforeRetry ==
    \A j \in Jobs :
        ( /\ OnlyJob(j)
          /\ tasks[j].pc = "step1"
          /\ tasks[j].retries > 0
          /\ SongExists(tasks[j].song_id) )
        => songs[tasks[j].song_id].status # FAILED

\* C5: once the soft time limit was raised in an execution, the execution
\* runs no further step: it is in the timeout handler or has returned the
\* timeout failure, and then the song is FAILED with "Processing timeout".
C5_SoftLimitEndsSubmission ==
    \A j \in Jobs :
        tasks[j].soft_limit_hit =>
            /\ tasks[j].pc \in {"except_timeout", "done"}
            /\ tasks[j].pc = "done" =>
                   /\ tasks[j].result = "timeout"
                   /\ (OnlyJob(j) /\ SongExists(tasks[j].song_id)) =>
                          /\ songs[tasks[j].song_id].status = FAILED
                          /\ MetaGet(songs[tasks[j].song_id], "error")
                                 = TIMEOUT_MESSAGE

\* C6: the body runs at most 1 + max_retries times, and a submission whose
\* every attempt raised ends with the song FAILED.
C6_BoundedRetriesEndFailed ==
    \A j \in Jobs :
        /\ tasks[j].retries + 1 <= 1 + max_retries
        /\ ( /\ OnlyJob(j)
             /\ tasks[j].pc = "done"
             /\ tasks[j].result = "failed"
             /\ SongExists(tasks[j].song_id) )
           => songs[tasks[j].song_id].status = FAILED

\* C7: no song is ever PARTIAL, and a finished submission on an existing
\* song leaves the song READY or FAILED.
C7_OnlyReadyOrFailedLeft ==
    /\ \A s \in DOMAIN songs : songs[s].status # PARTIAL
    /\ \A j \in Jobs :
           ( /\ OnlyJob(j)
             /\ tasks[j].pc = "done"
             /\ SongExists(tasks[j].song_id) )
           => songs[tasks[j].song_id].status \in {READY, FAILED}

\* C8: the PROCESSING write on a song already PROCESSING and the READY write
\* on a song already READY leave the whole song row unchanged, and two
\* deliveries of the same job that both succeeded leave the song READY, as
\* one successful delivery does.
C8_IdempotentStatusWrites ==
    /\ [][\A j \in Jobs :
             /\ ( /\ tasks[j].pc = "step1"
                  /\ tasks'[j].pc = "assets"
                  /\ songs[tasks[j].song_id].status = PROCESSING )
                => songs'[tasks[j].song_id] = songs[tasks[j].song_id]
             /\ ( /\ tasks[j].pc = "step6"
                  /\ tasks'[j].pc = "done"
                  /\ tasks'[j].result = "success"
                  /\ songs[tasks[j].song_id].status = READY )
                => songs'[tasks[j].song_id] = songs[tasks[j].song_id]
         ]_vars
    /\ [](\A j \in Jobs :
             ( /\ tasks[j].pc = "done"
               /\ tasks[j].result = "success"
               /\ \A k \in Jobs :
                      \/ tasks[k].pc = "idle"
                      \/ /\ tasks[k].song_id = tasks[j].song_id
                         /\ tasks[k].file_path = tasks[j].file_path
                         /\ tasks[k].pc = "done"
                         /\ tasks[k].result = "success" )
             => songs[tasks[j].song_id].status = READY)

\* Both deliveries of one job have run to success on the same song.
C8_Witness ==
    /\ \A k \in Jobs :
           /\ tasks[k].song_id = "s1"
           /\ tasks[k].pc = "done"
           /\ tasks[k].result = "success"
    /\ songs["s1"].status = READY

-----------------------------------------------------------------------------
(* Properties of the registry                                              *)

\* The kinds of the records stored for a song.
TypesOfSong(song_id) ==
    {media_assets[i].type :
        i \in {n \in 1..Len(media_assets) : media_assets[n].song_id = song_id}}

\* C9: has_required_assets(song_id) answers true exactly when the kinds of
\* the records stored for song_id include video_master, audio_original and
\* audio_inst.
C9_HasRequiredAssetsIffSuperset ==
    reply.op = "has_required_assets" =>
        (reply.value <=>
            {VIDEO_MASTER, AUDIO_ORIGINAL, AUDIO_INST}
                \subseteq TypesOfSong(reply.song_id))

\* A complete song is answered true beside a duplicate, an optional record
\* or a record of another song.
C9_Witness ==
    /\ reply.op = "has_required_assets"
    /\ reply.value
    /\ Len(media_assets) > Len(required_types)

\* C10: in both services get_asset_by_song_and_type returns the first record
\* of the song and kind when one exists, and None when none exists.
C10_GetReturnsFirstMatchOrNone ==
    reply.op = "get_asset_by_song_and_type" =>
        LET rows == MatchingAssets(media_assets, reply.song_id, reply.type)
        IN  IF rows = <<>>
            THEN reply.result.outcome = "None"
            ELSE /\ reply.result.outcome = "row"
                 /\ reply.result.rows = <<Head(rows)>>

\* C11: delete_assets_by_song(song_id) removes every record of the song and
\* returns the number it removed; afterwards the song has no record and
\* has_required_assets is false for it, and the records of every other song
\* are the ones that were there before.
C11_DeleteRemovesSongRecords ==
    /\ [][reply'.op = "delete_assets_by_song" =>
            /\ reply'.count = Len(GetAssetsBySong(media_assets, reply'.song_id))
            /\ Len(media_assets') = Len(media_assets) - reply'.count
            /\ \A s \in SongIds \ {reply'.song_id} :
                   GetAssetsBySong(media_assets', s)
                       = GetAssetsBySong(media_assets, s)]_vars
    /\ [](reply.op = "delete_assets_by_song" =>
            /\ GetAssetsBySong(media_assets, reply.song_id) = <<>>
            /\ TypesOfSong(reply.song_id) = {}
            /\ ~HasRequiredAssets(media_assets, reply.song_id))

\* A complete song was deleted while another song keeps a record.
C11_Witness ==
    /\ reply.op = "delete_assets_by_song"
    /\ reply.count >= Len(required_types)
    /\ media_assets # <<>>

\* C12: create_media_assets_for_song adds exactly three records, of the kinds
\* video_master, audio_original and audio_inst, each with the given song_id
\* and the path given for its kind; right after it has_required_assets is
\* true for the song.
C12_CreateAddsTheThreeRecords ==
    /\ [][reply'.op = "create_media_assets_for_song" =>
            /\ Len(media_assets') = Len(media_assets) + Len(required_types)
            /\ SubSeq(media_assets', 1, Len(media_assets)) = media_assets]_vars
    /\ [](reply.op = "create_media_assets_for_song" =>
            LET n == Len(media_assets)
                Stored(i) == [song_id |-> media_assets[i].song_id,
                              type |-> media_assets[i].type,
                              path |-> media_assets[i].path]
            IN  /\ n >= Len(required_types)
                /\ reply.assets = SubSeq(media_assets, n - 2, n)
                /\ Stored(n - 2) = [song_id |-> reply.song_id,
                                    type |-> VIDEO_MASTER,
                                    path |-> reply.video_path]
                /\ Stored(n - 1) = [song_id |-> reply.song_id,
                                    type |-> AUDIO_ORIGINAL,
                                    path |-> reply.audio_original_path]
                /\ Stored(n) = [song_id |-> reply.song_id,
                                type |-> AUDIO_INST,
                                path |-> reply.audio_inst_path]
                /\ HasRequiredAssets(media_assets, reply.song_id))

\* The three records were added behind a record that was already stored.
C12_Witness ==
    /\ reply.op = "create_media_assets_for_song"
    /\ Len(media_assets) > Len(required_types)
    /\ reply.audio_original_path # reply.audio_inst_path

-----------------------------------------------------------------------------
(* Properties of parse_range_header                                        *)

\* parse_range_header has answered the call held in reply.
ParseAnswered ==
    /\ reply.op = "parse_range_header"
    /\ reply.result.outcome \in {"ok", "ValueError"}

Returned(start, end) ==
    /\ reply.result.outcome = "ok"
    /\ reply.result.start = start
    /\ reply.result.end = end

\* C13: for 0 <= start <= end, file_size >= 1 and start < file_size,
\* parse_range_header("bytes={start}-{end}", file_size) returns
\* (start, min(end, file_size - 1)).
C13_StandardRangeClampsEnd ==
    ParseAnswered =>
        \A start \in 0..MaxOffset, end \in 0..MaxOffset :
            ( /\ reply.range_header = StandardHeader(start, end)
              /\ start <= end
              /\ reply.file_size >= 1
              /\ start < reply.file_size )
            => Returned(start, Min(end, reply.file_size - 1))

\* A two-digit range whose end lies behind the file is cut to the last byte.
C13_Witness ==
    /\ reply.op = "parse_range_header"
    /\ reply.range_header = StandardHeader(MaxOffset - 2, MaxOffset)
    /\ reply.file_size = MaxOffset - 1
    /\ Returned(MaxOffset - 2, MaxOffset - 2)

\* C14: for start >= 0, file_size >= 1 and start < file_size,
\* parse_range_header("bytes={start}-", file_size) returns
\* (start, file_size - 1).
C14_OpenRangeRunsToLastByte ==
    ParseAnswered =>
        \A start \in 0..MaxOffset :
            ( /\ reply.range_header = OpenEndHeader(start)
              /\ reply.file_size >= 1
              /\ start < reply.file_size )
            => Returned(start, reply.file_size - 1)

\* An open range that starts inside the file, behind its first byte.
C14_Witness ==
    /\ reply.op = "parse_range_header"
    /\ reply.range_header = OpenEndHeader(MaxOffset - 2)
    /\ reply.file_size = MaxOffset
    /\ Returned(MaxOffset - 2, MaxOffset - 1)

\* C15: for suffix >= 1 and file_size >= 1,
\* parse_range_header("bytes=-{suffix}", file_size) returns
\* (max(0, file_size - suffix), file_size - 1).
C15_SuffixRangeIsTheTail ==
    ParseAnswered =>
        \A suffix \in 1..MaxOffset :
            ( /\ reply.range_header = SuffixHeader(suffix)
              /\ reply.file_size >= 1 )
            => Returned(Max(0, reply.file_size - suffix), reply.file_size - 1)

\* A suffix shorter than the file selects a tail that starts after byte 0.
C15_Witness ==
    /\ reply.op = "parse_range_header"
    /\ reply.range_header = SuffixHeader(MaxOffset - 2)
    /\ reply.file_size = MaxOffset
    /\ Returned(2, MaxOffset - 1)

\* The strings that are exactly bytes=<start>-<end>, each of the two a
\* run of decimal digits or empty and at least one of them not empty.
IsRangeForm(h) ==
    /\ Len(h) > Len(BytesUnit) + 1
    /\ SubSeq(h, 1, Len(BytesUnit)) = BytesUnit
    /\ \E k \in (Len(BytesUnit) + 1)..Len(h) :
           /\ h[k] = "-"
           /\ \A i \in (Len(BytesUnit) + 1)..Len(h) : i # k => IsDigit(h[i])

\* C16: parse_range_header raises ValueError for every string that is not
\* exactly of the form bytes=<start>-<end>: bytes=-, another unit or prefix,
\* and any characters behind <end>.
C16_OtherFormsRaise ==
    (ParseAnswered /\ ~IsRangeForm(reply.range_header))
        => reply.result.outcome = "ValueError"

\* C17: parse_range_header raises ValueError, and returns no pair, for
\* bytes=a-b with a > b, for every start >= file_size with or without an
\* end, for bytes=-0, and for every header when file_size is 0.
C17_EmptyRangesRaise ==
    ( /\ ParseAnswered
      /\ \/ \E a \in 0..MaxOffset, b \in 0..MaxOffset :
                /\ reply.range_header = StandardHeader(a, b)
                /\ (a > b \/ a >= reply.file_size)
         \/ \E a \in 0..MaxOffset :
                /\ reply.range_header = OpenEndHeader(a)
                /\ a >= reply.file_size
         \/ reply.range_header = SuffixHeader(0)
         \/ reply.file_size = 0 )
    => reply.result.outcome = "ValueError"

\* bytes=-0 is refused for a file that has bytes.
C17_Witness ==
    /\ reply.op = "parse_range_header"
    /\ reply.range_header = SuffixHeader(0)
    /\ reply.file_size = MaxFileSize
    /\ reply.result.outcome = "ValueError"

\* C18: whenever parse_range_header returns a pair, for any header and any
\* file_size >= 0, 0 <= start <= end < file_size.
C18_ReturnedRangeLiesInFile ==
    (ParseAnswered /\ reply.result.outcome = "ok") =>
        /\ 0 <= reply.result.start
        /\ reply.result.start <= reply.result.end
        /\ reply.result.end < reply.file_size

\* The one-byte file: the only pair is (0, 0), here cut from a longer range.
C18_Witness ==
    /\ reply.op = "parse_range_header"
    /\ reply.range_header = StandardHeader(0, MaxOffset)
    /\ reply.file_size = 1
    /\ Returned(0, 0)

-----------------------------------------------------------------------------
(* Properties of GET /api/stream/{asset_id}                                *)

\* The GET request held in reply has been answered.
StreamAnswered ==
    /\ reply.op = "stream_media"
    /\ reply.response # NotCalled

\* The request names a registered asset whose file is in storage.
AssetAndFileFound ==
    /\ reply.asset_id < next_id
    /\ reply.file.exists

\* The span start-end that a Content-Range value "bytes start-end/size"
\* advertises, read back from its characters.
AdvertisedSpan(content_range) ==
    LET first == Len(BytesUnit) + 1
        dash == first + DigitRun(content_range, first)
        slash == dash + 1 + DigitRun(content_range, dash + 1)
        start == IntOf(SubSeq(content_range, first, dash - 1))
        end == IntOf(SubSeq(content_range, dash + 1, slash - 1))
    IN  end - start + 1

\* C19: a GET with a valid Range header is answered 206 with Content-Range
\* exactly "bytes {start}-{end}/{file_size}" and Content-Length
\* end - start + 1, which lies between 1 and file_size and is the span that
\* Content-Range advertises.
C19_ValidRangeAnswered206 ==
    ( /\ StreamAnswered
      /\ AssetAndFileFound
      /\ reply.range_header.present
      /\ IsRangeForm(reply.range_header.value)
      /\ ParseRangeHeader(reply.range_header.value,
                          reply.file.size).outcome = "ok" )
    => LET parsed == ParseRangeHeader(reply.range_header.value,
                                      reply.file.size)
           headers == reply.response.headers
           length == IntOf(headers["Content-Length"])
       IN  /\ reply.response.status = 206
           /\ headers["Content-Range"] =
                  ContentRange(parsed.start, parsed.end, reply.file.size)
           /\ length = parsed.end - parsed.start + 1
           /\ 1 <= length
           /\ length <= reply.file.size
           /\ length = AdvertisedSpan(headers["Content-Range"])

\* A two-digit range cut at the end of the file is answered 206.
C19_Witness ==
    /\ StreamAnswered
    /\ reply.range_header = [present |-> TRUE,
                             value |-> StandardHeader(MaxOffset - 2, MaxOffset)]
    /\ reply.file = [exists |-> TRUE, size |-> MaxOffset]
    /\ reply.response.status = 206
    /\ reply.response.headers["Content-Length"] = Str(2)

\* C20: a GET whose Range header is malformed or unsatisfiable is answered
\* 416 with Content-Range "bytes */{file_size}" and without any byte of the
\* file; the file is never opened.
C20_BadRangeAnswered416 ==
    ( /\ StreamAnswered
      /\ AssetAndFileFound
      /\ reply.range_header.present
      /\ \/ ~IsRangeForm(reply.range_header.value)
         \/ ParseRangeHeader(reply.range_header.value,
                             reply.file.size).outcome = "ValueError" )
    => /\ reply.response.status = 416
       /\ reply.response.headers =
              ("Content-Range" :> UnsatisfiedContentRange(reply.file.size))
       /\ reply.response.body.kind # "file_iterator"

\* The HEAD request held in reply has been answered.
HeadAnswered ==
    /\ reply.op = "head_media"
    /\ reply.response # NotCalled

\* C21: a GET without a Range header is answered 200 with Accept-Ranges
\* bytes, Content-Length the size of the file and the whole file, bytes 0 to
\* file_size - 1, as body; a HEAD for the same asset carries the same
\* Accept-Ranges, Content-Length and Content-Type and an empty body, with or
\* without a Range header.
C21_FullContentAndHead ==
    /\ ( /\ StreamAnswered
         /\ AssetAndFileFound
         /\ ~reply.range_header.present )
       => /\ reply.response.status = 200
          /\ reply.response.headers["Accept-Ranges"] = <<"b", "y", "t", "e", "s">>
          /\ IntOf(reply.response.headers["Content-Length"]) = reply.file.size
          /\ reply.response.body.kind = "file_iterator"
          /\ reply.response.body.start = 0
          /\ reply.response.body.end = reply.file.size - 1
    /\ (HeadAnswered /\ AssetAndFileFound)
       => LET get == StreamMedia(media_assets, reply.asset_id, NoRange,
                                 reply.file)
          IN  /\ reply.response.status = 200
              /\ reply.response.headers = get.headers
              /\ IntOf(reply.response.headers["Content-Length"])
                     = reply.file.size
              /\ reply.response.body.kind = "empty"

\* A HEAD request that carries a Range header is answered with the length of
\* a file of several bytes.
C21_Witness ==
    /\ HeadAnswered
    /\ reply.range_header.present
    /\ reply.range_header.value = StandardHeader(0, 0)
    /\ reply.file = [exists |-> TRUE, size |-> MaxFileSize]
    /\ reply.response.status = 200

\* C22: for GET and HEAD, an asset id without a registry record and a record
\* whose file is not in storage are answered 404 without any byte of a file,
\* whatever the Range header is: never 416.
C22_MissingAssetOrFileIs404 ==
    ( /\ (StreamAnswered \/ HeadAnswered)
      /\ ~AssetAndFileFound )
    => /\ reply.response.status = 404
       /\ reply.response.body.kind = "detail"

\* A GET for an id that was never issued, with a Range header that no file
\* could satisfy.
C22_Witness ==
    /\ StreamAnswered
    /\ reply.asset_id = next_id
    /\ reply.file.exists
    /\ reply.range_header.present
    /\ reply.range_header.value = SuffixHeader(0)
    /\ reply.response.status = 404

-----------------------------------------------------------------------------
(* Properties of get_content_type                                          *)

\* C24: get_content_type depends on the extension alone: an extension of the
\* table maps to its media type in any letter case, and every other
\* extension, or none, maps to application/octet-stream.  A name that is
\* nothing but the extension, such as ".mp4", has no extension.
C24_ContentTypeByExtension ==
    (reply.op = "get_content_type" /\ reply.result.outcome = "returned") =>
        reply.result.value =
            IF reply.table_type # "none" /\ reply.stem # <<>>
            THEN reply.table_type
            ELSE "application/octet-stream"

\* An upper-case extension behind a directory whose name ends in another
\* extension of the table.
C24_Witness ==
    /\ reply.op = "get_content_type"
    /\ reply.file_path = <<"a", ".", "m", "p", "3", "/", "s", "o", "n", "g", ".", "F", "L", "A", "C">>
    /\ reply.result.outcome = "returned"
    /\ reply.result.value = "audio/flac"

-----------------------------------------------------------------------------
(* Properties of file_iterator                                             *)

RECURSIVE Concat(_)
Concat(chunks) ==
    IF chunks = <<>> THEN <<>> ELSE Head(chunks) \o Concat(Tail(chunks))

\* C25: file_iterator terminates; its chunks are not empty, hold at most
\* chunk_size bytes and follow each other in the file from offset start
\* without passing offset end; once it is exhausted their concatenation is
\* bytes start..end of the file, or the bytes from start to the end of a
\* file that is shorter than end + 1 bytes.
C25_ChunksAreTheRange ==
    /\ [](\A r \in Requests :
            LET g == streams[r]
                sent == Concat(g.chunks)
            IN  /\ \A i \in DOMAIN g.chunks :
                       /\ g.chunks[i] # <<>>
                       /\ Len(g.chunks[i]) <= g.chunk_size
                /\ sent = SubSeq(g.file, g.start + 1, g.start + Len(sent))
                /\ \A i \in DOMAIN sent : sent[i] <= g.end
                /\ g.pc = "exhausted" =>
                       /\ sent = SubSeq(g.file, g.start + 1,
                                        Min(g.end + 1, Len(g.file)))
                       /\ Len(g.file) >= g.end + 1 /\ g.start <= g.end
                              => Len(sent) = g.end - g.start + 1
                       /\ Len(g.file) < g.end + 1 /\ g.start <= g.end
                              => Len(sent) < g.end - g.start + 1
                       /\ g.handle = "closed")
    /\ <>(streams["r1"].pc = "exhausted")

\* A range of several chunks, the last one shorter, read from inside a file
\* that goes on behind the range.
C25_Witness ==
    LET g == streams["r1"] IN
    /\ g.pc = "exhausted"
    /\ Len(g.chunks) > 2
    /\ g.chunk_size > 1
    /\ Len(g.chunks[1]) = g.chunk_size
    /\ Len(g.chunks[Len(g.chunks)]) < g.chunk_size
    /\ g.start > 0
    /\ Len(g.file) > g.end + 1

\* A request has ended: answered without a body, or its generator is
\* exhausted, closed or failed.
Ended(r) == streams[r].pc \in {"answered", "exhausted", "closed", "failed"}

OpenHandles == {r \in Requests : streams[r].handle = "open"}

\* C26: the file handle of a request is released on every exit path, the
\* body sent in full, the generator closed after a disconnect, or a read
\* raising; once all requests have ended no handle is open; a request
\* answered 404 or 416 never opens one.
C26_HandlesReleased ==
    /\ \A r \in Requests :
           /\ Ended(r) => streams[r].handle # "open"
           /\ streams[r].status \in {404, 416} =>
                  /\ streams[r].handle = "none"
                  /\ streams[r].pc = "answered"
    /\ (\A r \in Requests : Ended(r)) => Cardinality(OpenHandles) = 0

\* One client disconnected after a chunk, the read of the other raised: both
\* handles were open and are closed.
C26_Witness ==
    /\ streams["r1"].pc = "closed"
    /\ streams["r1"].chunks # <<>>
    /\ streams["r1"].handle = "closed"
    /\ streams["r2"].pc = "failed"
    /\ streams["r2"].handle = "closed"

-----------------------------------------------------------------------------
(* Properties of streaming during processing                               *)

\* The song that owns the registered asset of that id.
OwnerOf(asset_id) == GetMediaAsset(media_assets, asset_id).rows[1].song_id

\* C23: stream_media sends body bytes, status 200 or 206, for an asset only
\* when the song that owns it is READY; for an asset of a song that is
\* PENDING, PROCESSING or FAILED it answers 404, at every point of the run.
C23_BodyOnlyWhenReady ==
    [][( /\ reply' # reply
         /\ reply'.op = "stream_media"
         /\ GetMediaAsset(media_assets, reply'.asset_id).outcome = "row"
         /\ songs[OwnerOf(reply'.asset_id)].status # READY )
       => reply'.response.status = 404]_vars

-----------------------------------------------------------------------------
(* Properties of the order of the steps and of registration                *)

\* The registry after one committed registration of execution j.
RegisteredBy(j) ==
    LET output_paths == GenerateOutputPaths(tasks[j].song_id, tasks[j].file_path)
    IN  CreateMediaAssetsForSong(media_assets, next_id, tasks[j].song_id,
            output_paths.video_master, output_paths.audio_original,
            output_paths.audio_inst)

\* C27: within one execution PROCESSING is committed first, then the
\* registration transaction ends by commit or rollback, and only then READY
\* is written; committed records stay in the registry, so a reader that sees
\* the READY of an execution sees the records it committed; READY is written
\* only by an execution that came through the commit of PROCESSING.
C27_StepsAreOrdered ==
    [][ /\ \A j \in Jobs :
            /\ (tasks'[j].pc = "assets" /\ tasks[j].pc # "assets") =>
                   /\ tasks[j].pc = "step1"
                   /\ songs'[tasks[j].song_id].status = PROCESSING
            /\ (tasks'[j].pc = "step6" /\ tasks[j].pc # "step6") =>
                   /\ tasks[j].pc = "assets"
                   /\ media_assets' \in {media_assets, RegisteredBy(j)}
        /\ \A s \in DOMAIN songs :
               (songs'[s].status = READY /\ songs[s].status # READY) =>
                   \E j \in Jobs :
                       /\ tasks[j].pc = "step6"
                       /\ tasks[j].song_id = s
                       /\ tasks'[j].pc # "step6"
                       /\ media_assets' = media_assets
        /\ Len(media_assets') >= Len(media_assets)
        /\ SubSeq(media_assets', 1, Len(media_assets)) = media_assets
      ]_vars

\* An execution went through the three steps: its records and READY are
\* both there.
C27_Witness ==
    /\ tasks["j1"].result = "success"
    /\ tasks["j1"].assets_created
    /\ tasks["j2"].pc = "idle"
    /\ songs["s1"].status = READY
    /\ Len(media_assets) = Len(required_types)

\* The number of records of a song and kind.
CountOf(song_id, asset_type) ==
    Len(MatchingAssets(media_assets, song_id, asset_type))

C29_AllOrNothingWithResult ==
    [][\A j \in Jobs :
          (tasks[j].pc = "assets" /\ tasks'[j].pc = "step6") =>
              IF tasks'[j].assets_created
              THEN media_assets' = RegisteredBy(j)
              ELSE media_assets' = media_assets]_vars

\* C30: when two executions for the same existing song interleave and every
\* database operation succeeds, the song is READY or FAILED once both have
\* finished, and not PROCESSING.
C30_InterleavedEndTerminal ==
    (\A j \in Jobs : tasks[j].pc = "done") =>
        \A s \in ExistingSongs : songs[s].status \in {READY, FAILED}

\* One execution timed out and the other one wrote READY after the FAILED of
\* the first.
C30_Witness ==
    /\ tasks["j1"].pc = "done"
    /\ tasks["j2"].pc = "done"
    /\ tasks["j1"].result = "timeout"
    /\ tasks["j2"].result = "success"
    /\ songs["s1"].status = READY
    /\ HasError(songs["s1"])

====
